---- MODULE Spec2Model ----
(***************************************************************************)
(* Payment settlement and payout of LocalServiceProviderBackend.           *)
(*                                                                         *)
(* The store (Bill, Payment, RazorpayPayment, Transfer collections) is the *)
(* shared state.  Every HTTP call runs one async handler; a handler gives  *)
(* up control at each `await`, so one action below is the code that runs   *)
(* between two awaits of one call.  A store or gateway promise may reject; *)
(* catchAsync then ends the call with a 500 response.                      *)
(***************************************************************************)
EXTENDS Integers, Sequences, FiniteSets, TLC

\* ------------------------------------------------------------------ bounds
\* Calls started in one run.
MaxCalls == 3

\* ------------------------------------------------------------- fixed data
Undefined == "undefined"

\* Handler slots: calls that can be in progress at the same time.
Slots == {"a", "b"}
\* The slot used when calls are made one after the other.
SeqSlots == {"a"}

Users == {"alice", "bob"}

\* ServiceRequest documents in the store at the start (customer and service are
\* references).
ServiceRequests ==
  [r1 |-> [customer |-> "alice", service |-> "s1"],
   r2 |-> [customer |-> "bob", service |-> "s2"]]

\* Service documents in the store at the start (a Service's provider is set
\* when it is created and is never updated).
Services == [s1 |-> [provider |-> "prov1"], s2 |-> [provider |-> "prov2"]]

\* The stored document of ServiceRequest r in the given status.
StoredRequest(r, status) ==
  [customer |-> ServiceRequests[r].customer, service |-> ServiceRequests[r].service,
   status |-> status]

\* req.params.id values: the stored requests and one id of no document.
RequestIds == DOMAIN ServiceRequests \cup {"r0"}

\* process.env.RAZORPAY_SECRET and a key that is not it.
Secret == "RAZORPAY_SECRET"
OtherKey == "not-the-secret"

\* Orders held by the gateway: razorpay.orders.fetch(id) -> {amount, method}.
GatewayOrders ==
  [o1 |-> [amount |-> 25000, method |-> "UPI"],
   o3 |-> [amount |-> 50000, method |-> "Card"]]

\* Order ids named by callers: one order per Bill amount (each is over or
\* under the other amount).
OrderIds == DOMAIN GatewayOrders
PaymentIds == {"pay1", "pay2"}
BillAmounts == {250, 500}
PlatformFees == {0, 25}

\* ---------------------------------------------------------------- helpers
\* `${razorpay_order_id}|${razorpay_payment_id}`
Message(order, payment) == order \o "|" \o payment

\* crypto.createHmac('sha256', key).update(msg).digest('hex'): a keyed digest,
\* taken to be collision free, so it is determined by (key, msg) and by nothing less.
Hmac(key, msg) == <<"hmac-sha256", key, msg>>

\* generatedSignature !== razorpay_signature
SignatureMismatch_NoCheck(body) == FALSE
SignatureMismatch(body) ==
  Hmac(Secret, Message(body.razorpay_order_id, body.razorpay_payment_id))
    # body.razorpay_signature

\* order.amount !== bill.amount * 100
AmountMismatch_Less(order, billDoc) == order.amount < billDoc.amount * 100
AmountMismatch(order, billDoc) == order.amount # billDoc.amount * 100

\* An empty razorpay_signature field.
NoSignature == << >>

\* !razorpay_order_id || !razorpay_payment_id || !razorpay_signature
MissingDetails(body) ==
  \/ body.razorpay_order_id = ""
  \/ body.razorpay_payment_id = ""
  \/ body.razorpay_signature = NoSignature

\* Signatures a caller may send with ids (o, p): the right one, one made for
\* the ids in the other order, one made with another key.
SignaturesFor(o, p) ==
  { Hmac(Secret, Message(o, p)), Hmac(Secret, Message(p, o)),
    Hmac(OtherKey, Message(o, p)) }

\* Request bodies: every pair of ids with each of these signatures, and
\* bodies with one field empty.
Bodies ==
  UNION { { [razorpay_order_id |-> op[1], razorpay_payment_id |-> op[2],
             razorpay_signature |-> s] : s \in SignaturesFor(op[1], op[2]) } :
          op \in OrderIds \X PaymentIds }
  \cup
  { [razorpay_order_id |-> "", razorpay_payment_id |-> "pay1",
     razorpay_signature |-> Hmac(Secret, Message("", "pay1"))],
    [razorpay_order_id |-> "o1", razorpay_payment_id |-> "",
     razorpay_signature |-> Hmac(Secret, Message("o1", ""))],
    [razorpay_order_id |-> "o1", razorpay_payment_id |-> "pay1",
     razorpay_signature |-> NoSignature] }

\* Model.findOne gives the first document that matches, or null: the least
\* index in Found, 0 when Found is empty.
First(Found) ==
  IF Found = {} THEN 0 ELSE CHOOSE i \in Found : \A j \in Found : i <= j

\* Bill.findOne({ request: id })
FindBill(bs, id) == First({i \in 1..Len(bs) : bs[i].request = id})

\* Payment.findOne({ bill: bill._id })
FindPayment(ps, billIx) == First({i \in 1..Len(ps) : ps[i].bill = billIx})

\* serviceRequest.service.provider: a property read through the service field.
\* An unresolved reference is an ObjectId, which has no `provider` property.
ProviderOfService(service) ==
  IF service.populated THEN service.provider ELSE Undefined

\* !serviceRequest || serviceRequest.customer._id.toString() !== req.user.id
NotOwner_AnyCustomer(sr, user) == sr = << >>
NotOwner(sr, user) == sr = << >> \/ sr[1].customer._id # user

\* The status guards of settlement, in source order: the message of the first
\* guard that rejects, "" when none does.  ep is the loaded Payment (<< >> if null).
StateGuards_None(billDoc, ep) == ""
StateGuards_PaymentOnly(billDoc, ep) ==
  IF ep # << >> /\ ep[1].status = "captured"
    THEN "Duplicate payment detected. Payment already captured."
  ELSE IF ep # << >> /\ ep[1].status # "created" THEN "Invalid transfer status"
  ELSE ""
StateGuards(billDoc, ep) ==
  IF billDoc.status = "paid" THEN "Bill already paid"
  ELSE IF ep # << >> /\ ep[1].status = "captured"
    THEN "Duplicate payment detected. Payment already captured."
  ELSE IF ep # << >> /\ ep[1].status # "created" THEN "Invalid transfer status"
  ELSE ""

\* const transferAmount = payment.amount - payment.platform_fee
TransferAmount_Gross(payment) == payment.amount
TransferAmount(payment) == payment.amount - payment.platform_fee

\* --------------------------------------------------------------- responses
NoResp == [code |-> 0, msg |-> "", payment |-> << >>, transfer |-> << >>]
\* next(new AppError(msg, code))
Err(code, msg) == [code |-> code, msg |-> msg, payment |-> << >>, transfer |-> << >>]
\* a rejected promise or a thrown exception, passed to next() by catchAsync
Thrown == Err(500, "error")
Ok(msg, payment, transfer) ==
  [code |-> 200, msg |-> msg, payment |-> payment, transfer |-> transfer]

NoBody ==
  [razorpay_order_id |-> "", razorpay_payment_id |-> "", razorpay_signature |-> NoSignature]

\* A promise settles one way or the other.
Outcomes == {"ok", "rejected"}

\* ------------------------------------------------------------------- state
VARIABLES
  bills,      \* Bill collection: sequence of [request, amount, status]
  payments,   \* Payment collection: [bill, amount, platform_fee, status, razorpay_*, payment_method]
  rzpPayments,\* RazorpayPayment collection
  transfers,  \* Transfer collection: [payment, provider, amount, status, transfer_mode]
  calls,      \* per slot: the call in progress (its position, inputs, locals, response)
  started,    \* calls started so far
  settled,    \* per Bill: settlement calls that answered 200 (history)
  payouts,    \* per Transfer: remote payout calls that succeeded and failed (history)
  requests,   \* ServiceRequest collection: per id, [customer, service, status]
  failedOn,   \* request ids whose Bill a failed settlement call was admitted to (history)
  services,   \* Service collection: per id, [provider]
  ownerOf     \* per id of every Service created so far, its provider (history)

vars == <<bills, payments, rzpPayments, transfers, calls, started, settled, payouts,
          requests, failedOn, services, ownerOf>>
store == <<bills, payments, rzpPayments, transfers>>

\* ServiceRequest.findById(id).populate('customer'): the customer reference is
\* resolved to a document, the service reference stays an id.
LoadRequest(id) ==
  IF id \in DOMAIN requests
  THEN << [customer |-> [_id |-> requests[id].customer],
           service |-> [populated |-> FALSE, _id |-> requests[id].service,
                        provider |-> Undefined]] >>
  ELSE << >>

IdleCall ==
  [pc |-> "idle", kind |-> "none", id |-> "none", user |-> "none", body |-> NoBody,
   service |-> "none", slot |-> "none",
   sr |-> << >>, bill |-> 0, billDoc |-> << >>, order |-> << >>, paymentIx |-> 0,
   payment |-> << >>,
   transfer |-> 0, transferDoc |-> << >>, bank |-> "none", remote |-> "none",
   fetched |-> 0, amount |-> 0, pre |-> << >>, resp |-> NoResp]

\* Documents in the store when the server starts.  Both ServiceRequests have
\* been accepted and billed (or are about to be).  Bill r1 is unpaid, with no
\* Payment entry or one that is created, with or without a platform fee (or
\* failed: no handler reads the fee of a failed Payment).  Request r2 has either no
\* Bill or a settled one: Bill paid, Payment captured, Transfer written.
SeedBill == [request |-> "r2", amount |-> 500, status |-> "paid"]
SeedPayment ==
  [bill |-> 1, amount |-> 500, platform_fee |-> 50, status |-> "captured",
   razorpay_order_id |-> "o9", razorpay_payment_id |-> "pay2", payment_method |-> "UPI"]
SeedTransfer(status) ==
  [payment |-> 1, provider |-> "prov2", amount |-> 450, status |-> status,
   transfer_mode |-> "pending"]

NoPayouts == [ok |-> 0, failed |-> 0]

Init ==
  \E seed \in {"none", "created", "failed"}, amount \in BillAmounts,
     entry \in {"none", "created", "failed"}, fee \in PlatformFees :
    LET n == IF seed = "none" THEN 0 ELSE 1 IN
    /\ entry # "created" => fee = 0
    /\ bills = (IF seed = "none" THEN << >> ELSE <<SeedBill>>)
                 \o << [request |-> "r1", amount |-> amount, status |-> "unpaid"] >>
    /\ payments = (IF seed = "none" THEN << >> ELSE <<SeedPayment>>)
                 \o (IF entry = "none" THEN << >>
                     ELSE << [bill |-> n + 1, amount |-> amount, platform_fee |-> fee,
                              status |-> entry, razorpay_order_id |-> Undefined,
                              razorpay_payment_id |-> Undefined,
                              payment_method |-> Undefined] >>)
    /\ rzpPayments = << >>
    /\ transfers = (IF seed = "none" THEN << >> ELSE <<SeedTransfer(seed)>>)
    /\ calls = [c \in Slots |-> IdleCall]
    /\ started = 0
    /\ settled = [i \in 1..(n + 1) |-> 0]
    /\ payouts = [i \in 1..n |-> NoPayouts]
    /\ requests = [r \in DOMAIN ServiceRequests |-> StoredRequest(r, "accepted")]
    /\ failedOn = {}
    /\ services = Services
    /\ ownerOf = [s \in DOMAIN Services |-> Services[s].provider]

\* The call in slot c ends with response r.
Finish(c, r) == calls' = [calls EXCEPT ![c].pc = "done", ![c].resp = r]

Snapshot == [bills |-> bills, payments |-> payments, rzpPayments |-> rzpPayments,
             transfers |-> transfers]

\* ------------------------------------- processPaymentFromCustomerToMe
\* Lines 20-29: read params and body, validate, issue ServiceRequest.findById.
StartSettle(c, ids, users, bodies) ==
  /\ calls[c].pc = "idle"
  /\ started < MaxCalls
  /\ started' = started + 1
  /\ \E id \in ids, user \in users, body \in bodies :
       LET call == [IdleCall EXCEPT !.kind = "settle", !.id = id, !.user = user,
                                    !.body = body, !.pre = <<Snapshot>>]
       IN calls' = [calls EXCEPT ![c] =
            IF MissingDetails(body)
            THEN [call EXCEPT !.pc = "done",
                              !.resp = Err(400, "Missing payment verification details")]
            ELSE [call EXCEPT !.pc = "s_request"]]
  /\ UNCHANGED <<store, settled, payouts, requests, failedOn, services, ownerOf>>

\* Lines 29-35: the ServiceRequest arrives; ownership check; issue Bill.findOne.
SettleRequest(c) ==
  /\ calls[c].pc = "s_request"
  /\ \E out \in Outcomes :
       LET sr == LoadRequest(calls[c].id) IN
       IF out = "rejected" THEN Finish(c, Thrown)
       ELSE IF NotOwner(sr, calls[c].user)
         THEN Finish(c, Err(403, "Invalid service request or unauthorized access"))
       ELSE calls' = [calls EXCEPT ![c].pc = "s_bill", ![c].sr = sr]
  /\ UNCHANGED <<store, started, settled, payouts, requests, failedOn, services, ownerOf>>

\* Lines 35-44: the Bill arrives; bill guards; issue Payment.findOne.
SettleBill(c) ==
  /\ calls[c].pc = "s_bill"
  /\ \E out \in Outcomes :
       LET ix == FindBill(bills, calls[c].id) IN
       IF out = "rejected" THEN Finish(c, Thrown)
       ELSE IF ix = 0 THEN Finish(c, Err(400, "Bill not found"))
       ELSE IF StateGuards(bills[ix], << >>) # ""
         THEN Finish(c, Err(400, StateGuards(bills[ix], << >>)))
       ELSE calls' = [calls EXCEPT ![c].pc = "s_payment", ![c].bill = ix,
                                   ![c].billDoc = <<bills[ix]>>]
  /\ UNCHANGED <<store, started, settled, payouts, requests, failedOn, services, ownerOf>>

\* Lines 44-62: the existing Payment arrives; payment guards; signature check;
\* issue razorpay.orders.fetch.
SettlePayment(c) ==
  /\ calls[c].pc = "s_payment"
  /\ \E out \in Outcomes :
       LET px == FindPayment(payments, calls[c].bill)
           ep == IF px = 0 THEN << >> ELSE <<payments[px]>>
           guard == StateGuards(calls[c].billDoc[1], ep)
       IN
       IF out = "rejected" THEN Finish(c, Thrown)
       ELSE IF guard # "" THEN Finish(c, Err(400, guard))
       ELSE IF SignatureMismatch(calls[c].body)
         THEN Finish(c, Err(400, "Invalid payment signature"))
       ELSE calls' = [calls EXCEPT ![c].pc = "s_order",
                                   ![c].fetched = calls[c].fetched + 1]
  /\ UNCHANGED <<store, started, settled, payouts, requests, failedOn, services, ownerOf>>

\* A unique index on the gateway payment id: another Payment already carries pid.
DuplicatePaymentId_None(ps, px, pid) == FALSE
DuplicatePaymentId(ps, px, pid) ==
  \E j \in 1..Len(ps) : j # px /\ ps[j].razorpay_payment_id = pid

\* Lines 62-68: the gateway order arrives; amount check; issue
\* Payment.findOneAndUpdate.
SettleOrder(c) ==
  /\ calls[c].pc = "s_order"
  /\ \E out \in Outcomes :
       LET order == GatewayOrders[calls[c].body.razorpay_order_id] IN
       IF out = "rejected" THEN Finish(c, Thrown)
       ELSE IF AmountMismatch(order, calls[c].billDoc[1])
         THEN Finish(c, Err(400, "Payment amount mismatch"))
       ELSE calls' = [calls EXCEPT ![c].pc = "s_update", ![c].order = <<order>>]
  /\ UNCHANGED <<store, started, settled, payouts, requests, failedOn, services, ownerOf>>

\* The update document of Payment.findOneAndUpdate.
CapturePatch_NoStatus(p, body, order) ==
  [p EXCEPT !.razorpay_order_id = body.razorpay_order_id,
            !.razorpay_payment_id = body.razorpay_payment_id,
            !.payment_method = order.method]
CapturePatch_Flip(p, body, order) ==
  [p EXCEPT !.razorpay_order_id = body.razorpay_order_id,
            !.razorpay_payment_id = body.razorpay_payment_id,
            !.payment_method = order.method,
            !.status = IF p.status = "captured" THEN "created" ELSE "captured"]
CapturePatch(p, body, order) ==
  [p EXCEPT !.razorpay_order_id = body.razorpay_order_id,
            !.razorpay_payment_id = body.razorpay_payment_id,
            !.payment_method = order.method,
            !.status = "captured"]

\* Lines 68-85: findOneAndUpdate({ bill }, patch, { new: true }) is applied
\* by the store in one step and gives the updated document, or null when no
\* Payment matches; then bill.status = 'paid' and bill.save() is issued.
SettleUpdate(c) ==
  /\ calls[c].pc = "s_update"
  /\ LET px == FindPayment(payments, calls[c].bill)
         pid == calls[c].body.razorpay_payment_id
     IN
     \E out \in Outcomes :
       IF out = "rejected" \/ (px # 0 /\ DuplicatePaymentId(payments, px, pid))
       THEN /\ Finish(c, Thrown)
            /\ UNCHANGED payments
       ELSE IF px = 0
         THEN /\ Finish(c, Err(400, "No payment entry found for the bill"))
              /\ UNCHANGED payments
       ELSE LET doc == CapturePatch(payments[px], calls[c].body, calls[c].order[1]) IN
            /\ payments' = [payments EXCEPT ![px] = doc]
            /\ calls' = [calls EXCEPT ![c].pc = "s_save",
                           ![c].paymentIx = px, ![c].payment = <<doc>>,
                           ![c].billDoc = <<[calls[c].billDoc[1] EXCEPT !.status = "paid"]>>]
  /\ UNCHANGED <<bills, rzpPayments, transfers, started, settled, payouts, requests, failedOn, services, ownerOf>>

\* Lines 85-95: bill.save() completes (it writes the modified status);
\* Transfer.create is issued.
SettleSave(c) ==
  /\ calls[c].pc = "s_save"
  /\ \E out \in Outcomes :
       IF out = "rejected"
       THEN /\ Finish(c, Thrown)
            /\ UNCHANGED bills
       ELSE /\ bills' = [bills EXCEPT ![calls[c].bill].status = calls[c].billDoc[1].status]
            /\ calls' = [calls EXCEPT ![c].pc = "s_transfer"]
  /\ UNCHANGED <<payments, rzpPayments, transfers, started, settled, payouts, requests, failedOn, services, ownerOf>>

\* The document given to Transfer.create (lines 88-95).  pix is payment._id.
NewTransfer(pix, payment, sr) ==
  [payment |-> pix, provider |-> ProviderOfService(sr.service),
   amount |-> TransferAmount(payment), status |-> "created",
   transfer_mode |-> "pending"]

\* Lines 89-103: Transfer.create completes; the 200 response carries the
\* Payment and the Transfer.
SettleTransfer(c) ==
  /\ calls[c].pc = "s_transfer"
  /\ \E out \in Outcomes :
       IF out = "rejected"
       THEN /\ Finish(c, Thrown)
            /\ UNCHANGED <<transfers, settled, payouts>>
       ELSE LET pay == calls[c].payment[1]
                doc == NewTransfer(calls[c].paymentIx, pay, calls[c].sr[1])
            IN
            /\ transfers' = Append(transfers, doc)
            /\ payouts' = Append(payouts, NoPayouts)
            /\ settled' = [settled EXCEPT ![calls[c].bill] = @ + 1]
            /\ calls' = [calls EXCEPT ![c].pc = "done", ![c].transfer = Len(transfers) + 1,
                 ![c].resp = Ok("Payment processed and transfer initiated",
                                calls[c].payment, <<doc>>)]
  /\ UNCHANGED <<bills, payments, rzpPayments, started, requests, failedOn, services, ownerOf>>

\* ------------------------------------- customerController.processPayment
\* Lines 258-268: validate the body, issue ServiceRequest.findById.
StartPay(c, ids, users, bodies) ==
  /\ calls[c].pc = "idle"
  /\ started < MaxCalls
  /\ started' = started + 1
  /\ \E id \in ids, user \in users, body \in bodies :
       LET call == [IdleCall EXCEPT !.kind = "pay", !.id = id, !.user = user,
                                    !.body = body, !.pre = <<Snapshot>>]
       IN calls' = [calls EXCEPT ![c] =
            IF MissingDetails(body)
            THEN [call EXCEPT !.pc = "done",
                              !.resp = Err(400, "Missing payment verification details")]
            ELSE [call EXCEPT !.pc = "p_request"]]
  /\ UNCHANGED <<store, settled, payouts, requests, failedOn, services, ownerOf>>

\* Lines 268-283: the ServiceRequest arrives; existence and ownership checks;
\* issue Bill.findOne.
PayRequest(c) ==
  /\ calls[c].pc = "p_request"
  /\ \E out \in Outcomes :
       LET sr == LoadRequest(calls[c].id) IN
       IF out = "rejected" THEN Finish(c, Thrown)
       ELSE IF sr = << >> THEN Finish(c, Err(404, "Service request not found"))
       ELSE IF NotOwner(sr, calls[c].user)
         THEN Finish(c, Err(403, "Not authorized to pay for this request"))
       ELSE calls' = [calls EXCEPT ![c].pc = "p_bill", ![c].sr = sr]
  /\ UNCHANGED <<store, started, settled, payouts, requests, failedOn, services, ownerOf>>

\* crypto.createHmac('sha256', ...) at line 289.  The file requires Razorpay,
\* Bill and RazorpayPayment (lines 7-9) but not 'crypto', and nothing else binds
\* the name: it is unbound (a ReferenceError) or Node's global Web Crypto
\* object, which has no createHmac (a TypeError).  The expression throws
\* whatever the body is.
CreateHmacThrows_Required(body) == FALSE
CreateHmacThrows(body) == TRUE

\* Lines 283-299: the Bill arrives; the signature is computed and compared;
\* razorpay.orders.fetch is issued.
PayBill(c) ==
  /\ calls[c].pc = "p_bill"
  /\ \E out \in Outcomes :
       LET ix == FindBill(bills, calls[c].id) IN
       IF out = "rejected" THEN Finish(c, Thrown)
       ELSE IF ix = 0 THEN Finish(c, Err(400, "No bill found for this request"))
       ELSE IF CreateHmacThrows(calls[c].body) THEN Finish(c, Thrown)
       ELSE IF SignatureMismatch(calls[c].body)
         THEN Finish(c, Err(400, "Invalid payment signature"))
       ELSE calls' = [calls EXCEPT ![c].pc = "p_order", ![c].bill = ix,
                                   ![c].billDoc = <<bills[ix]>>,
                                   ![c].fetched = calls[c].fetched + 1]
  /\ UNCHANGED <<store, started, settled, payouts, requests, failedOn, services, ownerOf>>

\* The steps of processPayment after line 289 follow.  No call reaches them
\* (PayBill ends every call that gets to line 289), so they are steps of no
\* specification below; they record what lines 299-328 do.
\*
\* Lines 299-305: the gateway order arrives; amount check; issue
\* RazorpayPayment.findOne.
PayOrder(c) ==
  /\ calls[c].pc = "p_order"
  /\ \E out \in Outcomes :
       LET order == GatewayOrders[calls[c].body.razorpay_order_id] IN
       IF out = "rejected" THEN Finish(c, Thrown)
       ELSE IF AmountMismatch(order, calls[c].billDoc[1])
         THEN Finish(c, Err(400, "Payment amount mismatch"))
       ELSE calls' = [calls EXCEPT ![c].pc = "p_existing", ![c].order = <<order>>]
  /\ UNCHANGED <<store, started, settled, payouts, requests, failedOn, services, ownerOf>>

\* RazorpayPayment.findOne({ razorpay_payment_id })
FindRazorpayPayment(rs, pid) ==
  First({i \in 1..Len(rs) : rs[i].razorpay_payment_id = pid})

\* Lines 305-311: duplicate check; issue RazorpayPayment.create.
PayExisting(c) ==
  /\ calls[c].pc = "p_existing"
  /\ \E out \in Outcomes :
       IF out = "rejected" THEN Finish(c, Thrown)
       ELSE IF FindRazorpayPayment(rzpPayments, calls[c].body.razorpay_payment_id) # 0
         THEN Finish(c, Err(400, "Duplicate payment detected"))
       ELSE calls' = [calls EXCEPT ![c].pc = "p_create"]
  /\ UNCHANGED <<store, started, settled, payouts, requests, failedOn, services, ownerOf>>

\* The unique indexes of razorpayPaymentSchema: razorpay_order_id and
\* razorpay_payment_id.
UniqueViolation(rs, doc) ==
  \E j \in 1..Len(rs) :
    \/ rs[j].razorpay_order_id = doc.razorpay_order_id
    \/ rs[j].razorpay_payment_id = doc.razorpay_payment_id

\* Lines 311-322: RazorpayPayment.create completes; bill.status = 'paid' and
\* bill.save() is issued.
PayCreate(c) ==
  /\ calls[c].pc = "p_create"
  /\ LET doc == [bill |-> calls[c].bill,
                 razorpay_order_id |-> calls[c].body.razorpay_order_id,
                 razorpay_payment_id |-> calls[c].body.razorpay_payment_id,
                 razorpay_signature |-> calls[c].body.razorpay_signature,
                 payment_method |-> calls[c].order[1].method,
                 payment_status |-> "captured"]
     IN
     \E out \in Outcomes :
       IF out = "rejected" \/ UniqueViolation(rzpPayments, doc)
       THEN /\ Finish(c, Thrown)
            /\ UNCHANGED rzpPayments
       ELSE /\ rzpPayments' = Append(rzpPayments, doc)
            /\ calls' = [calls EXCEPT ![c].pc = "p_save",
                  ![c].billDoc = <<[calls[c].billDoc[1] EXCEPT !.status = "paid"]>>]
  /\ UNCHANGED <<bills, payments, transfers, started, settled, payouts, requests, failedOn, services, ownerOf>>

\* Lines 322-327: bill.save() completes; 200.
PaySave(c) ==
  /\ calls[c].pc = "p_save"
  /\ \E out \in Outcomes :
       IF out = "rejected"
       THEN /\ Finish(c, Thrown)
            /\ UNCHANGED bills
       ELSE /\ bills' = [bills EXCEPT ![calls[c].bill].status = calls[c].billDoc[1].status]
            /\ Finish(c, Ok("Payment successful", << >>, << >>))
  /\ UNCHANGED <<payments, rzpPayments, transfers, started, settled, payouts, requests, failedOn, services, ownerOf>>

\* ------------------------------------- processPaymentFromMeToProvider
\* What ProviderBankDetail.findOne({ provider }) can give: no document, or one
\* whose verification_status is pending or verified.  The documents are
\* written by a collaborator outside this code, so each read may find any.
BankReads == {"missing", "pending", "verified"}

\* !providerBankDetails || providerBankDetails.verification_status !== 'verified'
BankRefused_MissingOnly(bank) == bank = "missing"
BankRefused(bank) == bank = "missing" \/ bank # "verified"

\* The status guards of payout, in source order ("" when none rejects).
TransferGuards_None(doc) == ""
TransferGuards(doc) ==
  IF doc.status = "captured"
    THEN "Duplicate transfer detected. Transfer already captured."
  ELSE IF doc.status # "created" THEN "Invalid transfer status"
  ELSE ""

\* await razorpay.transfers.create(...) throws when the promise rejects.
RemoteThrows_Swallowed(out) == FALSE
RemoteThrows(out) == out = "rejected"

\* Lines 107-111: read the transfer id, issue Transfer.findById.
StartPayout(c, tids) ==
  /\ calls[c].pc = "idle"
  /\ started < MaxCalls
  /\ started' = started + 1
  /\ \E t \in tids :
       calls' = [calls EXCEPT ![c] =
         [IdleCall EXCEPT !.kind = "payout", !.pc = "d_transfer", !.transfer = t,
                          !.pre = <<Snapshot>>]]
  /\ UNCHANGED <<store, settled, payouts, requests, failedOn, services, ownerOf>>

\* Lines 111-125: the Transfer arrives (provider and payment populated);
\* status guards; transfer.provider._id is read (a TypeError when the
\* Transfer has no provider); issue ProviderBankDetail.findOne.
PayoutTransfer(c) ==
  /\ calls[c].pc = "d_transfer"
  /\ \E out \in Outcomes :
       LET t == calls[c].transfer IN
       IF out = "rejected" THEN Finish(c, Thrown)
       ELSE IF t \notin 1..Len(transfers) THEN Finish(c, Err(404, "Transfer not found"))
       ELSE IF TransferGuards(transfers[t]) # ""
         THEN Finish(c, Err(400, TransferGuards(transfers[t])))
       ELSE IF transfers[t].provider = Undefined THEN Finish(c, Thrown)
       ELSE calls' = [calls EXCEPT ![c].pc = "d_bank", ![c].transferDoc = <<transfers[t]>>]
  /\ UNCHANGED <<store, started, settled, payouts, requests, failedOn, services, ownerOf>>

\* Lines 125-142: the bank details arrive; verification check; issue
\* razorpay.transfers.create.
PayoutBank(c) ==
  /\ calls[c].pc = "d_bank"
  /\ \E out \in Outcomes, bank \in BankReads :
       IF out = "rejected" THEN Finish(c, Thrown)
       ELSE IF BankRefused(bank)
         THEN calls' = [calls EXCEPT ![c].pc = "done", ![c].bank = bank,
                 ![c].resp = Err(400, "Provider bank details not verified or missing")]
       ELSE calls' = [calls EXCEPT ![c].pc = "d_remote", ![c].bank = bank,
                                   ![c].remote = "issued"]
  /\ UNCHANGED <<store, started, settled, payouts, requests, failedOn, services, ownerOf>>

\* Lines 131-146: the remote payout call settles; on success
\* transfer.status = 'captured' and transfer.save() is issued.
PayoutRemote(c) ==
  /\ calls[c].pc = "d_remote"
  /\ \E out \in Outcomes :
       /\ payouts' = IF out = "ok" THEN [payouts EXCEPT ![calls[c].transfer].ok = @ + 1]
                     ELSE [payouts EXCEPT ![calls[c].transfer].failed = @ + 1]
       /\ IF RemoteThrows(out)
          THEN calls' = [calls EXCEPT ![c].pc = "done", ![c].remote = out,
                                      ![c].resp = Thrown]
          ELSE calls' = [calls EXCEPT ![c].pc = "d_save", ![c].remote = out,
                 ![c].transferDoc = <<[calls[c].transferDoc[1] EXCEPT !.status = "captured"]>>]
  /\ UNCHANGED <<store, started, settled, requests, failedOn, services, ownerOf>>

\* Lines 146-153: transfer.save() completes (it writes the modified status); 200.
PayoutSave(c) ==
  /\ calls[c].pc = "d_save"
  /\ \E out \in Outcomes :
       IF out = "rejected"
       THEN /\ Finish(c, Thrown)
            /\ UNCHANGED transfers
       ELSE /\ transfers' = [transfers EXCEPT ![calls[c].transfer].status =
                               calls[c].transferDoc[1].status]
            /\ Finish(c, Ok("Payment successfully transferred to provider", << >>, << >>))
  /\ UNCHANGED <<bills, payments, rzpPayments, started, settled, payouts, requests, failedOn, services, ownerOf>>

\* ------------------------------------- providerController
\* req.user.id of provider calls.
Providers == {"prov1", "prov2"}

\* req.body.amount of generateBill calls: absent or zero, and two amounts.
AmountInputs == {0, 250, 500}

\* A populated path whose referenced document is not in its collection: null.
NullService == [populated |-> TRUE, _id |-> "null", provider |-> Undefined]

\* ServiceRequest.findById(id).populate({ path: 'service', select: 'provider' })
LoadRequestWithService(id) ==
  IF id \in DOMAIN requests
  THEN << [status |-> requests[id].status,
           service |-> IF requests[id].service \in DOMAIN services
                       THEN [populated |-> TRUE, _id |-> requests[id].service,
                             provider |-> services[requests[id].service].provider]
                       ELSE NullService] >>
  ELSE << >>

\* serviceRequest.service.provider where service is null: a TypeError.
ServiceMissing(sr) == sr.service = NullService

\* serviceRequest.service.provider.toString() !== req.user.id
NotProvider(sr, user) == ProviderOfService(sr.service) # user

\* serviceRequest.status !== 'pending'
NotPending(sr) == sr.status # "pending"

\* `Request is already ${serviceRequest.status}`
AlreadyMessage(status) ==
  CASE status = "accepted" -> "Request is already accepted"
    [] status = "rejected" -> "Request is already rejected"
    [] OTHER -> "Request is already completed"

\* `Cannot reject ${serviceRequest.status} request`
CannotRejectMessage(status) ==
  CASE status = "accepted" -> "Cannot reject accepted request"
    [] status = "rejected" -> "Cannot reject rejected request"
    [] OTHER -> "Cannot reject completed request"

\* Lines 157-165 / 191-199: read the id, issue ServiceRequest.findById.
\* kind is "accept" or "reject".
StartDecision(c, kind, ids, users) ==
  /\ calls[c].pc = "idle"
  /\ started < MaxCalls
  /\ started' = started + 1
  /\ \E id \in ids, user \in users :
       calls' = [calls EXCEPT ![c] =
         [IdleCall EXCEPT !.kind = kind, !.pc = "q_request", !.id = id, !.user = user,
                          !.pre = <<Snapshot>>]]
  /\ UNCHANGED <<store, settled, payouts, requests, failedOn, services, ownerOf>>

\* Lines 161-183 / 195-217: the ServiceRequest arrives; existence, ownership
\* and status checks; the status is set on the loaded document and
\* serviceRequest.save() is issued.
DecisionRequest(c) ==
  /\ calls[c].pc = "q_request"
  /\ \E out \in Outcomes :
       LET sr == LoadRequestWithService(calls[c].id)
           accept == calls[c].kind = "accept"
       IN
       IF out = "rejected" THEN Finish(c, Thrown)
       ELSE IF sr = << >> THEN Finish(c, Err(404, "Service request not found"))
       ELSE IF ServiceMissing(sr[1]) THEN Finish(c, Thrown)
       ELSE IF NotProvider(sr[1], calls[c].user)
         THEN Finish(c, Err(403, IF accept THEN "Not authorized to accept this request"
                                 ELSE "Not authorized to reject this request"))
       ELSE IF NotPending(sr[1])
         THEN Finish(c, Err(400, IF accept THEN AlreadyMessage(sr[1].status)
                                 ELSE CannotRejectMessage(sr[1].status)))
       ELSE calls' = [calls EXCEPT ![c].pc = "q_save",
              ![c].sr = <<[sr[1] EXCEPT !.status = IF accept THEN "accepted"
                                                  ELSE "rejected"]>>]
  /\ UNCHANGED <<store, started, settled, payouts, requests, failedOn, services, ownerOf>>

\* Lines 183-188 / 217-222: serviceRequest.save() completes (it writes the
\* modified status); 200.
DecisionSave(c) ==
  /\ calls[c].pc = "q_save"
  /\ \E out \in Outcomes :
       IF out = "rejected"
       THEN /\ Finish(c, Thrown)
            /\ UNCHANGED requests
       ELSE /\ requests' = [requests EXCEPT ![calls[c].id].status = calls[c].sr[1].status]
            /\ Finish(c, Ok(IF calls[c].kind = "accept" THEN "Service request accepted"
                            ELSE "Service request rejected", << >>, << >>))
  /\ UNCHANGED <<store, started, settled, payouts, failedOn, services, ownerOf>>

\* !amount || amount <= 0
InvalidAmount(amount) == amount = 0 \/ amount <= 0

\* Lines 225-235: validate the amount, issue ServiceRequest.findById.
StartBill(c, ids, users, amounts) ==
  /\ calls[c].pc = "idle"
  /\ started < MaxCalls
  /\ started' = started + 1
  /\ \E id \in ids, user \in users, amount \in amounts :
       LET call == [IdleCall EXCEPT !.kind = "bill", !.id = id, !.user = user,
                                    !.amount = amount, !.pre = <<Snapshot>>]
       IN calls' = [calls EXCEPT ![c] =
            IF InvalidAmount(amount)
            THEN [call EXCEPT !.pc = "done",
                   !.resp = Err(400, "Please provide a valid amount greater than 0")]
            ELSE [call EXCEPT !.pc = "b_request"]]
  /\ UNCHANGED <<store, settled, payouts, requests, failedOn, services, ownerOf>>

\* Lines 235-256: the ServiceRequest arrives; existence, ownership and status
\* checks; issue Bill.findOne.
BillRequest(c) ==
  /\ calls[c].pc = "b_request"
  /\ \E out \in Outcomes :
       LET sr == LoadRequestWithService(calls[c].id) IN
       IF out = "rejected" THEN Finish(c, Thrown)
       ELSE IF sr = << >> THEN Finish(c, Err(404, "Service request not found"))
       ELSE IF ServiceMissing(sr[1]) THEN Finish(c, Thrown)
       ELSE IF NotProvider(sr[1], calls[c].user)
         THEN Finish(c, Err(403, "Not authorized to generate bill for this request"))
       ELSE IF sr[1].status # "accepted"
         THEN Finish(c, Err(400, "Bill can only be generated for accepted requests"))
       ELSE calls' = [calls EXCEPT ![c].pc = "b_existing", ![c].sr = sr]
  /\ UNCHANGED <<store, started, settled, payouts, requests, failedOn, services, ownerOf>>

\* if (existingBill)
BillExists(ix) == ix # 0

\* Lines 256-262: the existing Bill (or null) arrives; issue Bill.create.
BillExisting(c) ==
  /\ calls[c].pc = "b_existing"
  /\ \E out \in Outcomes :
       IF out = "rejected" THEN Finish(c, Thrown)
       ELSE IF BillExists(FindBill(bills, calls[c].id))
         THEN Finish(c, Err(400, "Bill already exists for this request"))
       ELSE calls' = [calls EXCEPT ![c].pc = "b_create"]
  /\ UNCHANGED <<store, started, settled, payouts, requests, failedOn, services, ownerOf>>

\* 201 with the id of the new Bill.
Created(msg) == [code |-> 201, msg |-> msg, payment |-> << >>, transfer |-> << >>]

\* Lines 262-272: Bill.create completes; 201.
BillCreate(c) ==
  /\ calls[c].pc = "b_create"
  /\ \E out \in Outcomes :
       IF out = "rejected"
       THEN /\ Finish(c, Thrown)
            /\ UNCHANGED <<bills, settled>>
       ELSE /\ bills' = Append(bills, [request |-> calls[c].id, amount |-> calls[c].amount,
                                       status |-> "unpaid"])
            /\ settled' = Append(settled, 0)
            /\ calls' = [calls EXCEPT ![c].pc = "done", ![c].bill = Len(bills) + 1,
                                      ![c].resp = Created("Bill generated successfully")]
  /\ UNCHANGED <<payments, rzpPayments, transfers, started, payouts, requests, failedOn, services, ownerOf>>

\* ------------------------------------- createServiceRequest, deleteService
\* Service ids a caller names: Service s1 of the start, the Services created
\* since, and one id of no document.
NamedServices == (DOMAIN ownerOf \ {"s2"}) \cup {"s0"}

\* req.body.time_slot: absent, a time before now, a time after now, and a
\* string that is no date.
TimeSlotInputs == {"", "past", "future", "invalid"}

\* !service_id || !time_slot
MissingRequestFields(service, slot) == service = "" \/ slot = ""

\* new Date(time_slot) < Date.now(): an invalid Date compares false.
SlotInPast(slot) == slot = "past"

\* The _id of the next created ServiceRequest: ids are never reused.
NewRequestIds == <<"r3", "r4", "r5", "r6", "r7">>
NewRequestId(reqs) == NewRequestIds[Cardinality(DOMAIN reqs) - Cardinality(DOMAIN ServiceRequests) + 1]

\* A collection after one document is added under id k.
WithDocument(coll, k, doc) ==
  [x \in DOMAIN coll \cup {k} |-> IF x = k THEN doc ELSE coll[x]]

\* createServiceRequest, validations of the body; issue Service.findById.
StartRequest(c, serviceIds, users, slots) ==
  /\ calls[c].pc = "idle"
  /\ started < MaxCalls
  /\ started' = started + 1
  /\ \E service \in serviceIds, user \in users, slot \in slots :
       LET call == [IdleCall EXCEPT !.kind = "request", !.service = service,
                                    !.user = user, !.slot = slot, !.pre = <<Snapshot>>]
       IN calls' = [calls EXCEPT ![c] =
            IF MissingRequestFields(service, slot)
            THEN [call EXCEPT !.pc = "done",
                   !.resp = Err(400, "Please provide service ID and time slot")]
            ELSE IF SlotInPast(slot)
            THEN [call EXCEPT !.pc = "done",
                   !.resp = Err(400, "Time slot must be in the future")]
            ELSE [call EXCEPT !.pc = "r_service"]]
  /\ UNCHANGED <<store, settled, payouts, requests, failedOn, services, ownerOf>>

\* createServiceRequest: the Service (or null) arrives; issue ServiceRequest.create.
RequestService(c) ==
  /\ calls[c].pc = "r_service"
  /\ \E out \in Outcomes :
       IF out = "rejected" THEN Finish(c, Thrown)
       ELSE IF calls[c].service \notin DOMAIN services
         THEN Finish(c, Err(404, "Service not found"))
       ELSE calls' = [calls EXCEPT ![c].pc = "r_create"]
  /\ UNCHANGED <<store, started, settled, payouts, requests, failedOn, services, ownerOf>>

\* createServiceRequest: ServiceRequest.create completes (it rejects a
\* time_slot that is no date); 201 with the id of the new request.
RequestCreate(c) ==
  /\ calls[c].pc = "r_create"
  /\ \E out \in Outcomes :
       IF out = "rejected" \/ calls[c].slot = "invalid"
       THEN /\ Finish(c, Thrown)
            /\ UNCHANGED requests
       ELSE LET r == NewRequestId(requests) IN
            /\ requests' = WithDocument(requests, r,
                 [customer |-> calls[c].user, service |-> calls[c].service,
                  status |-> "pending"])
            /\ calls' = [calls EXCEPT ![c].pc = "done", ![c].id = r,
                                      ![c].resp = Created("Service request sent successfully")]
  /\ UNCHANGED <<store, started, settled, payouts, failedOn, services, ownerOf>>

\* req.body of createService: name, price, coordinates, address and an
\* optional parent_service ("" when absent).
ServiceBody(name, price, lat, long, parent) ==
  [name |-> name, price |-> price, location_latitude |-> lat,
   location_longitude |-> long, address |-> "12 High Street", parent_service |-> parent]

\* Bodies of createService calls: complete ones without a parent, with a
\* stored parent and with a parent of no document; one without a name, one
\* with price 0, one with a latitude that is no number, one with a negative price.
ServiceBodies ==
  { ServiceBody("plumbing", 100, "12.9", "77.6", parent) : parent \in {"", "s1", "s0"} }
  \cup
  { ServiceBody("", 100, "12.9", "77.6", ""),
    ServiceBody("plumbing", 0, "12.9", "77.6", ""),
    ServiceBody("plumbing", 100, "north", "77.6", ""),
    ServiceBody("plumbing", -5, "12.9", "77.6", "") }

\* !name || !price || !location_latitude || !location_longitude || !address
MissingServiceFields(body) ==
  \/ body.name = "" \/ body.price = 0
  \/ body.location_latitude = "" \/ body.location_longitude = ""
  \/ body.address = ""

\* isNaN(x) of a string: the strings that are numbers here.
IsNaN(x) == x \notin {"12.9", "77.6"}

\* isNaN(location_latitude) || isNaN(location_longitude)
InvalidCoordinates(body) ==
  IsNaN(body.location_latitude) \/ IsNaN(body.location_longitude)

\* price <= 0
InvalidPrice(body) == body.price <= 0

\* The _id of the next created Service: ids are never reused.
NewServiceIds == <<"s3", "s4", "s5", "s6", "s7">>
NewServiceId(owners) ==
  NewServiceIds[Cardinality(DOMAIN owners) - Cardinality(DOMAIN Services) + 1]

\* createService lines 7-36: validations of the body; issue
\* Service.findById(parent_service) when a parent is named, Service.create
\* otherwise.
StartService(c, users, bodies) ==
  /\ calls[c].pc = "idle"
  /\ started < MaxCalls
  /\ started' = started + 1
  /\ \E user \in users, body \in bodies :
       LET call == [IdleCall EXCEPT !.kind = "service", !.user = user,
                                    !.service = body.parent_service,
                                    !.pre = <<Snapshot>>]
           rejected(msg) == [call EXCEPT !.pc = "done", !.resp = Err(400, msg)]
       IN calls' = [calls EXCEPT ![c] =
            IF MissingServiceFields(body)
              THEN rejected("Please provide all required fields")
            ELSE IF InvalidCoordinates(body) THEN rejected("Invalid coordinates")
            ELSE IF InvalidPrice(body) THEN rejected("Price must be greater than 0")
            ELSE IF body.parent_service # "" THEN [call EXCEPT !.pc = "c_parent"]
            ELSE [call EXCEPT !.pc = "c_create"]]
  /\ UNCHANGED <<store, settled, payouts, requests, failedOn, services, ownerOf>>

\* createService lines 35-42: the parent Service (or null) arrives; issue
\* Service.create.
ServiceParent(c) ==
  /\ calls[c].pc = "c_parent"
  /\ \E out \in Outcomes :
       IF out = "rejected" THEN Finish(c, Thrown)
       ELSE IF calls[c].service \notin DOMAIN services
         THEN Finish(c, Err(404, "Parent service not found"))
       ELSE calls' = [calls EXCEPT ![c].pc = "c_create"]
  /\ UNCHANGED <<store, started, settled, payouts, requests, failedOn, services, ownerOf>>

\* createService lines 42-62: Service.create completes, the new Service has
\* the caller as its provider; 201 with the id of the new Service.
ServiceCreate(c) ==
  /\ calls[c].pc = "c_create"
  /\ \E out \in Outcomes :
       IF out = "rejected"
       THEN /\ Finish(c, Thrown)
            /\ UNCHANGED <<services, ownerOf>>
       ELSE LET s == NewServiceId(ownerOf) IN
            /\ services' = WithDocument(services, s, [provider |-> calls[c].user])
            /\ ownerOf' = WithDocument(ownerOf, s, calls[c].user)
            /\ calls' = [calls EXCEPT ![c].pc = "done", ![c].id = s,
                                      ![c].resp = Created("Service created successfully")]
  /\ UNCHANGED <<store, started, settled, payouts, requests, failedOn>>

\* deleteService lines 134-138: read the id, issue Service.findById.
StartDelete(c, serviceIds, users) ==
  /\ calls[c].pc = "idle"
  /\ started < MaxCalls
  /\ started' = started + 1
  /\ \E service \in serviceIds, user \in users :
       calls' = [calls EXCEPT ![c] =
         [IdleCall EXCEPT !.kind = "delete", !.pc = "x_service", !.service = service,
                          !.user = user, !.pre = <<Snapshot>>]]
  /\ UNCHANGED <<store, settled, payouts, requests, failedOn, services, ownerOf>>

\* service.provider.toString() !== req.user.id
NotServiceOwner(service, user) == service.provider # user

\* deleteService lines 138-149: the Service (or null) arrives; existence and
\* ownership checks; issue Service.findByIdAndDelete.
DeleteLookup(c) ==
  /\ calls[c].pc = "x_service"
  /\ \E out \in Outcomes :
       IF out = "rejected" THEN Finish(c, Thrown)
       ELSE IF calls[c].service \notin DOMAIN services
         THEN Finish(c, Err(404, "Service not found"))
       ELSE IF NotServiceOwner(services[calls[c].service], calls[c].user)
         THEN Finish(c, Err(403, "Not authorized to delete this service"))
       ELSE calls' = [calls EXCEPT ![c].pc = "x_delete"]
  /\ UNCHANGED <<store, started, settled, payouts, requests, failedOn, services, ownerOf>>

\* deleteService lines 149-155: Service.findByIdAndDelete completes (the
\* document is gone, whether or not this call removed it); 200.
DeleteRemove(c) ==
  /\ calls[c].pc = "x_delete"
  /\ \E out \in Outcomes :
       IF out = "rejected"
       THEN /\ Finish(c, Thrown)
            /\ UNCHANGED services
       ELSE /\ services' = [s \in DOMAIN services \ {calls[c].service} |-> services[s]]
            /\ Finish(c, Ok("Service deleted successfully", << >>, << >>))
  /\ UNCHANGED <<store, started, settled, payouts, requests, failedOn, ownerOf>>

\* History: the call in slot c is a settlement call that ended in an error and
\* that found, when it started, the Bill of its request unpaid with a Payment
\* in status created (the state from which settlement is admitted).
FailedAdmissible(c) ==
  /\ calls[c].kind = "settle"
  /\ calls[c].resp.code # 200
  /\ LET before == calls[c].pre[1]
         ix == FindBill(before.bills, calls[c].id)
         px == FindPayment(before.payments, ix)
     IN /\ ix # 0 /\ before.bills[ix].status = "unpaid"
        /\ px # 0 /\ before.payments[px].status = "created"

\* The response has been sent; the slot is free for the next call.  The history of
\* failed settlement attempts is kept.
Retire(c) ==
  /\ calls[c].pc = "done"
  /\ calls' = [calls EXCEPT ![c] = IdleCall]
  /\ failedOn' = IF FailedAdmissible(c) THEN failedOn \cup {calls[c].id} ELSE failedOn
  /\ UNCHANGED <<store, started, settled, payouts, requests, services, ownerOf>>

\* --------------------------------------------------------- specifications
\* Transfer ids a caller may name: the stored ones and one of no document.
TransferIds == 0..Len(transfers)

Step(c) ==
  \/ SettleRequest(c) \/ SettleBill(c) \/ SettlePayment(c) \/ SettleOrder(c)
  \/ SettleUpdate(c) \/ SettleSave(c) \/ SettleTransfer(c)
  \/ PayRequest(c) \/ PayBill(c)
  \/ PayoutTransfer(c) \/ PayoutBank(c) \/ PayoutRemote(c) \/ PayoutSave(c)
  \/ Retire(c)

\* Calls made one after the other: a call starts when the one before has
\* been answered.
Next ==
  \E c \in SeqSlots :
    \/ StartSettle(c, RequestIds, Users, Bodies)
    \/ StartPay(c, RequestIds, Users, Bodies)
    \/ StartPayout(c, TransferIds)
    \/ Step(c)

Spec == Init /\ [][Next]_vars

\* Calls in progress at the same time: the handlers of two settlement or
\* payout calls interleave at their awaits.  The caller of a settlement is the
\* owner of request r1, with a signed body for either payment id or a body
\* signed with another key.
ConcBodies ==
  { b \in Bodies :
      /\ b.razorpay_order_id = "o1"
      /\ b.razorpay_signature \in
            { Hmac(Secret, Message("o1", b.razorpay_payment_id)),
              Hmac(OtherKey, Message("o1", b.razorpay_payment_id)) } }

NextConc ==
  \E c \in Slots :
    \/ StartSettle(c, {"r1"}, {"alice"}, ConcBodies)
    \/ StartPayout(c, TransferIds)
    \/ SettleRequest(c) \/ SettleBill(c) \/ SettlePayment(c) \/ SettleOrder(c)
    \/ SettleUpdate(c) \/ SettleSave(c) \/ SettleTransfer(c)
    \/ PayoutTransfer(c) \/ PayoutBank(c) \/ PayoutRemote(c) \/ PayoutSave(c)
    \/ Retire(c)

SpecConc == Init /\ [][NextConc]_vars

\* Calls on requests in progress at the same time: createService,
\* createServiceRequest, deleteService, acceptRequest, rejectRequest and generateBill interleave at
\* their awaits.  A request is pending or accepted at the start; an accepted
\* request r2 may already have its Bill.  A caller names a stored request or
\* an id of no document.
InitProv ==
  \E s1, s2 \in {"pending", "accepted"}, billed \in BOOLEAN :
    /\ billed => s2 = "accepted"
    /\ requests = [r1 |-> StoredRequest("r1", s1), r2 |-> StoredRequest("r2", s2)]
    /\ services = Services
    /\ ownerOf = [s \in DOMAIN Services |-> Services[s].provider]
    /\ bills = (IF billed
                THEN << [request |-> "r2", amount |-> 500, status |-> "unpaid"] >>
                ELSE << >>)
    /\ payments = << >>
    /\ rzpPayments = << >>
    /\ transfers = << >>
    /\ calls = [c \in Slots |-> IdleCall]
    /\ started = 0
    /\ settled = [i \in 1..Len(bills) |-> 0]
    /\ payouts = << >>
    /\ failedOn = {}

NextProv ==
  \E c \in Slots :
    \/ StartDecision(c, "accept", DOMAIN requests \cup {"r0"}, Providers)
    \/ StartDecision(c, "reject", DOMAIN requests \cup {"r0"}, Providers)
    \/ StartBill(c, DOMAIN requests \cup {"r0"}, Providers, AmountInputs)
    \/ StartService(c, Providers, ServiceBodies)
    \/ ServiceParent(c) \/ ServiceCreate(c)
    \/ StartRequest(c, {""} \cup NamedServices, {"alice"}, TimeSlotInputs)
    \/ StartDelete(c, NamedServices, Providers)
    \/ RequestService(c) \/ RequestCreate(c)
    \/ DeleteLookup(c) \/ DeleteRemove(c)
    \/ DecisionRequest(c) \/ DecisionSave(c)
    \/ BillRequest(c) \/ BillExisting(c) \/ BillCreate(c)
    \/ Retire(c)

SpecProv == InitProv /\ [][NextProv]_vars


\* ------------------------------------------------------------------ claims
\* The store when the call in slot c started.
Pre(c) == calls[c].pre[1]
Done(c) == calls[c].pc = "done"
IsSettle(c) == calls[c].kind = "settle"
IsPayout(c) == calls[c].kind = "payout"
\* The call in slot c has left the store as it found it.
Untouched(c) == Pre(c) = Snapshot
\* The Bill and Payment the call in slot c addresses, as they were when it started.
PreBillIx(c) == FindBill(Pre(c).bills, calls[c].id)
PrePaymentIx(c) == FindPayment(Pre(c).payments, PreBillIx(c))
\* Transfers that reference Payment px.
TransfersOf(ts, px) == {t \in 1..Len(ts) : ts[t].payment = px}
\* The body carries the signature the gateway makes for its ids.
RightSignature(body) ==
  body.razorpay_signature =
    Hmac(Secret, Message(body.razorpay_order_id, body.razorpay_payment_id))
\* The gateway's amount for the body's order is the Bill's amount in paise.
GatewayMatches(body, bill) ==
  GatewayOrders[body.razorpay_order_id].amount = bill.amount * 100
\* The caller is the customer of the addressed ServiceRequest.
OwnerCalls(c) ==
  /\ calls[c].id \in DOMAIN requests
  /\ requests[calls[c].id].customer = calls[c].user

\* C1: with calls made one after the other, at most one settlement call on a
\* Bill answers 200; once one has, every other settlement call that addresses
\* the Bill ends in an error and leaves the store untouched, the Bill is paid
\* and exactly one Transfer references its Payment.
C1_CaptureAtMostOnce ==
  /\ \A i \in 1..Len(bills) : settled[i] <= 1
  /\ \A c \in SeqSlots :
       LET ix == FindBill(bills, calls[c].id) IN
       (Done(c) /\ IsSettle(c) /\ ix # 0 /\ settled[ix] >= 1) =>
         /\ bills[ix].status = "paid"
         /\ Cardinality(TransfersOf(transfers, FindPayment(payments, ix))) = 1
         /\ calls[c].resp.code # 200 =>
              (calls[c].resp.code \in {400, 403, 500} /\ Untouched(c))

\* C1 witness: after a capture of the Bill, a call by the owner that repeats
\* the captured gateway payment id with its right signature has been rejected.
C1_Witness ==
  \E c \in SeqSlots :
    LET ix == FindBill(bills, calls[c].id) IN
    /\ Done(c) /\ IsSettle(c) /\ ix # 0 /\ settled[ix] = 1
    /\ OwnerCalls(c) /\ RightSignature(calls[c].body)
    /\ payments[FindPayment(payments, ix)].razorpay_payment_id
         = calls[c].body.razorpay_payment_id
    /\ calls[c].resp = Err(400, "Bill already paid")
    /\ Untouched(c)

\* C2: in every reachable state, whatever the interleaving of settlement
\* calls, at most one Transfer references any Payment.
C2_OneTransferPerPayment ==
  \A px \in 1..Len(payments) : Cardinality(TransfersOf(transfers, px)) <= 1

\* What C3 is about: a finished settlement call by the owner, on a Bill that
\* was unpaid, with the right signature and the gateway amount of the Bill,
\* none of whose store or gateway steps failed.
C3_Case(c) ==
  /\ Done(c) /\ IsSettle(c) /\ ~MissingDetails(calls[c].body)
  /\ OwnerCalls(c)
  /\ PreBillIx(c) # 0
  /\ Pre(c).bills[PreBillIx(c)].status = "unpaid"
  /\ RightSignature(calls[c].body)
  /\ GatewayMatches(calls[c].body, Pre(c).bills[PreBillIx(c)])
  /\ calls[c].resp.code # 500

\* The effects C3 names: Payment captured with the gateway's method, Bill
\* paid, one new Transfer (created, amount = payment.amount - platform_fee),
\* and the 200 response carrying that Payment and Transfer.
C3_Effects(c) ==
  LET ix == PreBillIx(c)
      px == FindPayment(payments, ix)
      r == calls[c].resp
  IN
  /\ r.code = 200 /\ r.payment # << >> /\ r.transfer # << >>
  /\ px # 0 /\ payments[px] = r.payment[1]
  /\ r.payment[1].status = "captured"
  /\ r.payment[1].payment_method =
       GatewayOrders[calls[c].body.razorpay_order_id].method
  /\ bills[ix].status = "paid"
  /\ transfers = Append(Pre(c).transfers, r.transfer[1])
  /\ r.transfer[1].payment = px
  /\ r.transfer[1].status = "created"
  /\ r.transfer[1].amount = r.payment[1].amount - r.payment[1].platform_fee

\* C3 as claimed: such a call succeeds with these effects whether the Bill
\* had no Payment record or one in status created.
C3_SucceedsWithOrWithoutPayment ==
  \A c \in SeqSlots :
    (C3_Case(c) /\ (PrePaymentIx(c) = 0
                     \/ Pre(c).payments[PrePaymentIx(c)].status = "created"))
      => C3_Effects(c)

\* C3 amended: such a call succeeds with these effects when the Bill already
\* had a Payment record in status created; when the Bill had no Payment
\* record it is answered 'No payment entry found for the bill' and nothing is
\* created or changed.
C3_SucceedsOnCreatedPayment ==
  \A c \in SeqSlots :
    C3_Case(c) =>
      /\ (PrePaymentIx(c) # 0 /\ Pre(c).payments[PrePaymentIx(c)].status = "created")
           => C3_Effects(c)
      /\ PrePaymentIx(c) = 0 =>
           (calls[c].resp = Err(400, "No payment entry found for the bill")
            /\ Untouched(c))

\* C3 witness: a settlement of a Bill with a created Payment and a platform
\* fee has answered 200.
C3_Witness ==
  \E c \in SeqSlots :
    /\ C3_Case(c) /\ C3_Effects(c)
    /\ Pre(c).payments[PrePaymentIx(c)].status = "created"
    /\ calls[c].resp.payment[1].platform_fee > 0

\* A settlement call of either handler.
IsSettlement(c) == calls[c].kind \in {"settle", "pay"}
\* Positions of a settlement call after its signature check: the gateway
\* order fetch has been issued.
AfterSignature ==
  {"s_order", "s_update", "s_save", "s_transfer",
   "p_order", "p_existing", "p_create", "p_save"}
\* Positions after the amount check: a write has been or is about to be made.
AfterAmountCheck ==
  {"s_update", "s_save", "s_transfer", "p_existing", "p_create", "p_save"}
\* The loaded Payment of the addressed Bill when the call started (<< >> if none).
PrePayment(c) ==
  IF PrePaymentIx(c) = 0 THEN << >> ELSE <<Pre(c).payments[PrePaymentIx(c)]>>
\* The checks that come before the signature check let the call through.
ReachesSignatureCheck(c) ==
  /\ OwnerCalls(c)
  /\ PreBillIx(c) # 0
  /\ IsSettle(c) => StateGuards(Pre(c).bills[PreBillIx(c)], PrePayment(c)) = ""

\* C4: a settlement call whose razorpay_signature is not the HMAC-SHA256 of
\* "order_id|payment_id" under the secret never issues the gateway order
\* fetch and never gets past the signature check; it ends in an error with the
\* store untouched, and that error is 'Invalid payment signature' whenever
\* the earlier checks pass and no step throws.
C4_BadSignatureRejected ==
  \A c \in SeqSlots :
    (IsSettlement(c) /\ ~MissingDetails(calls[c].body)
       /\ ~RightSignature(calls[c].body)) =>
      /\ calls[c].fetched = 0
      /\ calls[c].pc \notin AfterSignature
      /\ Done(c) =>
           /\ calls[c].resp.code \in {400, 403, 404, 500}
           /\ Untouched(c)
           /\ (ReachesSignatureCheck(c) /\ calls[c].resp.code # 500) =>
                calls[c].resp = Err(400, "Invalid payment signature")

\* C4 witness: the owner's settlement of an unpaid Bill, signed for the ids in
\* the other order, has been answered with the signature error.
C4_Witness ==
  \E c \in SeqSlots :
    /\ Done(c) /\ IsSettle(c) /\ ReachesSignatureCheck(c)
    /\ calls[c].body.razorpay_signature =
         Hmac(Secret, Message(calls[c].body.razorpay_payment_id,
                              calls[c].body.razorpay_order_id))
    /\ calls[c].resp = Err(400, "Invalid payment signature")
    /\ calls[c].fetched = 0 /\ Untouched(c)

\* C5: a settlement call gets past the amount check only if the gateway
\* order's amount is the Bill's amount x 100; with any other gateway amount it
\* ends in an error with the store untouched, and once the order has been
\* fetched that error is 'Payment amount mismatch'.
C5_AmountReconciled ==
  \A c \in SeqSlots :
    (IsSettlement(c) /\ ~MissingDetails(calls[c].body) /\ PreBillIx(c) # 0
       /\ ~GatewayMatches(calls[c].body, Pre(c).bills[PreBillIx(c)])) =>
      /\ calls[c].pc \notin AfterAmountCheck
      /\ Done(c) =>
           /\ calls[c].resp.code # 200
           /\ Untouched(c)
           /\ (calls[c].fetched = 1 /\ calls[c].resp.code # 500) =>
                calls[c].resp = Err(400, "Payment amount mismatch")

\* C5 witness: Bill 250 against gateway amount 50000 has been answered with
\* the amount-mismatch error.
C5_Witness ==
  \E c \in SeqSlots :
    /\ Done(c) /\ IsSettle(c) /\ ~MissingDetails(calls[c].body) /\ PreBillIx(c) # 0
    /\ Pre(c).bills[PreBillIx(c)].amount = 250
    /\ GatewayOrders[calls[c].body.razorpay_order_id].amount = 50000
    /\ calls[c].resp = Err(400, "Payment amount mismatch")
    /\ Untouched(c)

\* C6: a settlement call whose caller is not the customer of the addressed
\* ServiceRequest, or whose ServiceRequest does not exist, stops at the
\* ownership check: the Bill is never loaded, no gateway fetch is issued, the
\* answer is the authorization (or not-found) error and never a later
\* check's, and the store is untouched.
C6_OwnershipFirst ==
  \A c \in SeqSlots :
    (IsSettlement(c) /\ ~MissingDetails(calls[c].body) /\ ~OwnerCalls(c)) =>
      /\ calls[c].pc \in {"s_request", "p_request", "done"}
      /\ calls[c].bill = 0 /\ calls[c].billDoc = << >>
      /\ calls[c].fetched = 0
      /\ Done(c) =>
           /\ calls[c].resp.code \in {403, 404, 500}
           /\ calls[c].resp.code = 404 => calls[c].id \notin DOMAIN requests
           /\ Untouched(c)

\* C6 witness: a customer who does not own request r1 has called settlement
\* for it with a rightly signed body and has been answered 403.
C6_Witness ==
  \E c \in SeqSlots :
    /\ Done(c) /\ IsSettle(c) /\ calls[c].id = "r1" /\ calls[c].user = "bob"
    /\ RightSignature(calls[c].body)
    /\ calls[c].resp = Err(403, "Invalid service request or unauthorized access")
    /\ calls[c].bill = 0 /\ calls[c].fetched = 0 /\ Untouched(c)

\* C7: a settlement call (processPaymentFromCustomerToMe) on a Bill that is
\* already paid never issues the gateway order fetch; when it reaches the Bill
\* it is answered 'Bill already paid'.
C7_PaidBillNoGatewayCall ==
  \A c \in SeqSlots :
    (IsSettle(c) /\ PreBillIx(c) # 0
       /\ Pre(c).bills[PreBillIx(c)].status = "paid") =>
      /\ calls[c].fetched = 0
      /\ calls[c].pc \notin AfterSignature
      /\ Done(c) =>
           /\ calls[c].resp.code # 200
           /\ (OwnerCalls(c) /\ ~MissingDetails(calls[c].body)
                 /\ calls[c].resp.code # 500) =>
                calls[c].resp = Err(400, "Bill already paid")

\* C7 witness: the owner's rightly signed call, with the matching gateway
\* amount, on a Bill paid by an earlier call has been rejected with no fetch.
C7_Witness ==
  \E c \in SeqSlots :
    /\ Done(c) /\ IsSettle(c) /\ ~MissingDetails(calls[c].body)
    /\ OwnerCalls(c) /\ PreBillIx(c) # 0
    /\ Pre(c).bills[PreBillIx(c)].status = "paid"
    /\ Pre(c).bills[PreBillIx(c)].request = "r1"
    /\ RightSignature(calls[c].body)
    /\ GatewayMatches(calls[c].body, Pre(c).bills[PreBillIx(c)])
    /\ calls[c].resp = Err(400, "Bill already paid")
    /\ calls[c].fetched = 0

\* transfer.amount = payment.amount - payment.platform_fee, for the Payment
\* the Transfer references.
AmountIsNet(ts, ps, t) ==
  ts[t].amount = ps[ts[t].payment].amount - ps[ts[t].payment].platform_fee

\* A step keeps every Transfer, keeps the amount of each, and leaves every
\* Transfer with the net amount of its Payment.
C8_Step ==
  /\ Len(transfers') >= Len(transfers)
  /\ \A t \in 1..Len(transfers') : AmountIsNet(transfers', payments', t)
  /\ \A t \in 1..Len(transfers) : transfers'[t].amount = transfers[t].amount

\* C8: in every reachable state, under any interleaving of settlement and
\* payout calls, every Transfer's amount is its Payment's amount less its
\* platform fee; no step removes a Transfer or changes the amount of one that
\* exists.
C8_TransferAmountFixed ==
  /\ \A t \in 1..Len(transfers) : AmountIsNet(transfers, payments, t)
  /\ [][C8_Step]_vars

\* C8 witness: a Transfer written by a settlement, for a Payment with a
\* platform fee, and a Transfer that a payout has since moved to captured.
C8_Witness ==
  /\ \E t \in 1..Len(transfers) :
       /\ transfers[t].provider = Undefined
       /\ payments[transfers[t].payment].platform_fee > 0
       /\ AmountIsNet(transfers, payments, t)
  /\ \E t \in 1..Len(transfers) :
       /\ transfers[t].status = "captured" /\ payouts[t].ok >= 1
       /\ AmountIsNet(transfers, payments, t)

\* C9: a payout call that found the provider's ProviderBankDetail missing or
\* not verified never calls the remote payout API and leaves the Transfer as
\* it was; a call that is rejected for the Transfer's status never reads the
\* bank details nor calls the API either: the API is called only by a call that
\* read verified bank details.
C9_UnverifiedNeverPaid ==
  \A c \in SeqSlots :
    IsPayout(c) =>
      /\ calls[c].remote # "none" => calls[c].bank = "verified"
      /\ calls[c].bank \in {"missing", "pending"} =>
           /\ Done(c)
           /\ calls[c].resp = Err(400, "Provider bank details not verified or missing")
           /\ Untouched(c)
           /\ calls[c].remote = "none"
      /\ Untouched(c) \/ calls[c].remote = "ok"

\* C9 witness: a payout of a created Transfer has found bank details that
\* are present but not verified, and has been refused.
C9_Witness ==
  \E c \in SeqSlots :
    /\ Done(c) /\ IsPayout(c) /\ calls[c].bank = "pending"
    /\ calls[c].remote = "none"
    /\ transfers[calls[c].transfer].status = "created"
    /\ payouts[calls[c].transfer] = NoPayouts
    /\ calls[c].resp = Err(400, "Provider bank details not verified or missing")

\* C10: when the remote payout call of a payout fails, the call ends in an
\* error with the Transfer exactly as it was loaded, in status created, so the
\* status guards of a later payout call on it pass.
C10_RemoteFailureKeepsCreated ==
  \A c \in SeqSlots :
    (IsPayout(c) /\ calls[c].remote = "rejected") =>
      /\ Done(c) /\ calls[c].resp.code = 500
      /\ Untouched(c)
      /\ transfers[calls[c].transfer].status = "created"
      /\ TransferGuards(transfers[calls[c].transfer]) = ""

\* C10 witness: a payout call has been admitted to the remote call on a
\* Transfer whose remote payout had failed in an earlier call.
C10_Witness ==
  \E c \in SeqSlots :
    /\ IsPayout(c) /\ calls[c].pc = "d_remote"
    /\ payouts[calls[c].transfer].failed >= 1
    /\ payouts[calls[c].transfer].ok = 0
    /\ transfers[calls[c].transfer].status = "created"

\* The Transfer a payout call names exists.
NamesTransfer(c) == IsPayout(c) /\ calls[c].transfer \in 1..Len(Pre(c).transfers)
\* Its status when the call started.
PreTransferStatus(c) == Pre(c).transfers[calls[c].transfer].status

\* C11: with calls made one after the other, a payout call answers 200 only
\* for a Transfer it found created and leaves captured, so at most once per
\* Transfer; a call on a Transfer already captured gets the duplicate error,
\* one on a Transfer in any other status than created or captured gets the
\* invalid-status error, and neither reads the bank details, calls the remote
\* payout API or changes the Transfer.
C11_DispatchAtMostOnce ==
  \A c \in SeqSlots :
    NamesTransfer(c) =>
      /\ PreTransferStatus(c) # "created" =>
           /\ calls[c].pc \in {"d_transfer", "done"}
           /\ calls[c].bank = "none" /\ calls[c].remote = "none"
           /\ Untouched(c)
           /\ (Done(c) /\ calls[c].resp.code # 500) =>
                calls[c].resp =
                  Err(400, IF PreTransferStatus(c) = "captured"
                           THEN "Duplicate transfer detected. Transfer already captured."
                           ELSE "Invalid transfer status")
      /\ (Done(c) /\ calls[c].resp.code = 200) =>
           /\ PreTransferStatus(c) = "created"
           /\ transfers[calls[c].transfer].status = "captured"
           /\ payouts[calls[c].transfer].ok >= 1

\* C11 witness: a payout call on a Transfer that an earlier payout call moved
\* to captured has been answered with the duplicate error.
C11_Witness ==
  \E c \in SeqSlots :
    /\ NamesTransfer(c) /\ Done(c)
    /\ PreTransferStatus(c) = "captured"
    /\ payouts[calls[c].transfer].ok = 1
    /\ calls[c].resp = Err(400, "Duplicate transfer detected. Transfer already captured.")
    /\ calls[c].remote = "none" /\ Untouched(c)

\* A step keeps every record, and moves no Bill from paid, no Payment from
\* captured and no Transfer from captured.
C12_Step ==
  /\ Len(bills') >= Len(bills)
  /\ Len(payments') >= Len(payments)
  /\ Len(transfers') >= Len(transfers)
  /\ \A i \in 1..Len(bills) :
       bills[i].status = "paid" => bills'[i].status = "paid"
  /\ \A i \in 1..Len(payments) :
       payments[i].status = "captured" => payments'[i].status = "captured"
  /\ \A i \in 1..Len(transfers) :
       transfers[i].status = "captured" => transfers'[i].status = "captured"

\* C12: under any interleaving of settlement and payout calls, no step takes a
\* paid Bill back to unpaid, a captured Payment back to created or a captured
\* Transfer back to created.
C12_NeverBackward == [][C12_Step]_vars

\* C12 witness: two settlement calls have both written the Payment of one
\* Bill (the second over a Payment already captured) and a payout has moved a
\* Transfer to captured; Bill, Payment and Transfer are in their final status.
C12_Witness ==
  /\ \E ix \in 1..Len(bills) :
       /\ settled[ix] = 2
       /\ bills[ix].status = "paid"
       /\ payments[FindPayment(payments, ix)].status = "captured"
  /\ \E t \in 1..Len(transfers) :
       transfers[t].status = "captured" /\ payouts[t].ok >= 1

\* Bills, Payments and Transfers are as they were when the call in slot c started.
RecordsAsBefore(c) ==
  /\ bills = Pre(c).bills
  /\ payments = Pre(c).payments
  /\ transfers = Pre(c).transfers

\* C13: every settlement or payout call that ends in an error, a failing
\* store or gateway step included, leaves every Bill, Payment and Transfer
\* record as it was before the call.
C13_ErrorsChangeNothing ==
  \A c \in SeqSlots :
    (Done(c) /\ (IsSettle(c) \/ IsPayout(c)) /\ calls[c].resp.code # 200)
      => RecordsAsBefore(c)

\* No two records of rs that carry a gateway payment id carry the same one.
UniquePaymentIds(rs) ==
  \A i, j \in 1..Len(rs) :
    (i # j /\ rs[i].razorpay_payment_id # Undefined)
      => rs[i].razorpay_payment_id # rs[j].razorpay_payment_id

\* When the call in slot c started, its gateway payment id was on a captured
\* record of another Bill, in the collection the call's handler writes.
PaymentIdUsedElsewhere(c) ==
  LET pid == calls[c].body.razorpay_payment_id
      ix == PreBillIx(c)
  IN
  /\ IsSettlement(c) /\ ~MissingDetails(calls[c].body) /\ ix # 0
  /\ IF IsSettle(c)
     THEN \E j \in 1..Len(Pre(c).payments) :
            /\ Pre(c).payments[j].razorpay_payment_id = pid
            /\ Pre(c).payments[j].status = "captured"
            /\ Pre(c).payments[j].bill # ix
     ELSE \E j \in 1..Len(Pre(c).rzpPayments) :
            /\ Pre(c).rzpPayments[j].razorpay_payment_id = pid
            /\ Pre(c).rzpPayments[j].payment_status = "captured"
            /\ Pre(c).rzpPayments[j].bill # ix

\* C14: in every reachable state no two Payment records and no two
\* RazorpayPayment records carry the same razorpay_payment_id; a settlement
\* call that presents a gateway payment id already on a captured record of
\* another Bill never answers 200 and writes nothing.
C14_PaymentIdUnique ==
  /\ UniquePaymentIds(payments)
  /\ UniquePaymentIds(rzpPayments)
  /\ \A c \in SeqSlots :
       PaymentIdUsedElsewhere(c) =>
         /\ calls[c].pc \notin {"s_save", "s_transfer", "p_save"}
         /\ Untouched(c)
         /\ Done(c) => calls[c].resp.code \in {400, 403, 500}

\* C14 witness: the owner of a Bill whose Payment is created has presented,
\* rightly signed and with the matching gateway amount, the gateway payment id
\* that captured another Bill; the update was refused and nothing written.
C14_Witness ==
  \E c \in SeqSlots :
    /\ PaymentIdUsedElsewhere(c) /\ IsSettle(c) /\ Done(c)
    /\ OwnerCalls(c) /\ RightSignature(calls[c].body)
    /\ GatewayMatches(calls[c].body, Pre(c).bills[PreBillIx(c)])
    /\ PrePaymentIx(c) # 0
    /\ Pre(c).payments[PrePaymentIx(c)].status = "created"
    /\ calls[c].order # << >>
    /\ calls[c].resp = Thrown
    /\ Untouched(c)

\* Bills of request r.
BillsOf(bs, r) == {i \in 1..Len(bs) : bs[i].request = r}

\* C15: in every reachable state, under any interleaving of generateBill
\* calls, a ServiceRequest has at most one Bill; a generateBill call for a
\* request that had a Bill when the call started is not answered 201.
C15_OneBillPerRequest ==
  /\ \A r \in DOMAIN requests : Cardinality(BillsOf(bills, r)) <= 1
  /\ \A c \in Slots :
       (calls[c].kind = "bill" /\ Done(c)
          /\ BillsOf(Pre(c).bills, calls[c].id) # {}) => calls[c].resp.code # 201

\* The provider who owns the service of request r.
OwningProvider(r) == ownerOf[requests[r].service]

\* A step changes the status of a ServiceRequest only from pending, only to
\* accepted or rejected, and only as the save of an accept or reject call by
\* the provider who owns the request's service.
C16_Step ==
  \A r \in DOMAIN requests :
    requests'[r].status # requests[r].status =>
      /\ requests[r].status = "pending"
      /\ requests'[r].status \in {"accepted", "rejected"}
      /\ \E c \in Slots :
           /\ calls[c].pc = "q_save" /\ calls[c].id = r
           /\ calls[c].user = OwningProvider(r)

\* C16: under any interleaving of acceptRequest and rejectRequest calls, a
\* ServiceRequest's status changes only from pending to accepted or rejected,
\* only through a call by the owning provider, and a request that has become
\* accepted or rejected never changes status again.
C16_DecidedOnce == [][C16_Step]_vars

\* No settlement call is between its first step and its response.
NoSettlementInProgress == \A c \in Slots : IsSettle(c) => Done(c)

\* C17: in every state in which no settlement call is in progress, also after
\* a call that failed at any step, each Bill is paid if and only if its
\* Payment is captured, and if and only if a Transfer exists for that Payment.
C17_SettlementAtomic ==
  NoSettlementInProgress =>
    \A ix \in 1..Len(bills) :
      LET px == FindPayment(payments, ix)
          paid == bills[ix].status = "paid"
          captured == px # 0 /\ payments[px].status = "captured"
          transferred == px # 0 /\ TransfersOf(transfers, px) # {}
      IN (paid <=> captured) /\ (paid <=> transferred)

\* C18: with calls made one after the other, after a settlement attempt on a
\* Bill (unpaid, its Payment created) has failed at any step, a later
\* settlement call by the owning customer on the Bill still unpaid, with the
\* right signature and the matching gateway amount, none of whose steps fails,
\* completes the transition: Bill paid, Payment captured, a Transfer created.
C18_RetryCompletes ==
  \A c \in SeqSlots :
    (C3_Case(c) /\ calls[c].id \in failedOn) => C3_Effects(c)

\* C19: the Transfer created by a successful settlement references, as its
\* provider, the provider who owns the service of the settled ServiceRequest.
C19_TransferNamesProvider ==
  \A c \in SeqSlots :
    (Done(c) /\ IsSettle(c) /\ calls[c].resp.code = 200) =>
      /\ calls[c].resp.transfer[1].provider = OwningProvider(calls[c].id)
      /\ transfers[calls[c].transfer].provider = OwningProvider(calls[c].id)

\* C20: in every reachable state, under any interleaving of payout calls and
\* when a payout is repeated after its transfer.save() failed, the remote
\* payout API has succeeded at most once for each Transfer.
C20_PaidOutAtMostOnce ==
  \A t \in 1..Len(transfers) : payouts[t].ok <= 1

\* Captured RazorpayPayment records of Bill ix.
CapturedFor(rs, ix) ==
  {j \in 1..Len(rs) : rs[j].bill = ix /\ rs[j].payment_status = "captured"}

\* C21: on the pay endpoint, after any sequence of calls, each Bill has at
\* most one RazorpayPayment record with payment_status captured; a call for a
\* request whose Bill is already paid never issues the gateway order fetch
\* nor gets past the signature computation, is not answered 200, and leaves
\* the store untouched, so it records no second captured payment.
C21_OneCapturePerBill ==
  /\ \A ix \in 1..Len(bills) : Cardinality(CapturedFor(rzpPayments, ix)) <= 1
  /\ \A c \in SeqSlots :
       (calls[c].kind = "pay" /\ PreBillIx(c) # 0
          /\ Pre(c).bills[PreBillIx(c)].status = "paid") =>
         /\ calls[c].fetched = 0
         /\ calls[c].pc \notin AfterSignature
         /\ Done(c) =>
              /\ calls[c].resp.code # 200
              /\ Untouched(c)

\* C21 witness: after a settlement has paid the Bill of r1, its owner has
\* called the pay endpoint with the gateway amount of the Bill and a rightly
\* signed payment id other than the captured one; the call reached the Bill,
\* threw, and recorded nothing.
C21_Witness ==
  \E c \in SeqSlots :
    LET ix == PreBillIx(c) IN
    /\ calls[c].kind = "pay" /\ Done(c) /\ calls[c].id = "r1" /\ OwnerCalls(c)
    /\ ix # 0 /\ Pre(c).bills[ix].status = "paid" /\ settled[ix] = 1
    /\ ~MissingDetails(calls[c].body) /\ RightSignature(calls[c].body)
    /\ GatewayMatches(calls[c].body, Pre(c).bills[ix])
    /\ payments[FindPayment(payments, ix)].razorpay_payment_id
         # calls[c].body.razorpay_payment_id
    /\ calls[c].sr # << >>
    /\ calls[c].resp = Thrown
    /\ calls[c].fetched = 0 /\ Untouched(c)

====
